---------------------------- MODULE Spec2Model ----------------------------
(***************************************************************************)
(* Model of the pocket-ai-vercel serverless handlers:                      *)
(*   src/api/pocket-ai.js        speech -> chat reply -> speech  (WAV)     *)
(*   src/api/todo-from-speech.js speech -> TODO classification -> Notion   *)
(*   src/unnamed/part_000        speech -> chat reply -> speech  (MP3)     *)
(* and of the PCM-to-WAV encoder each of them carries.                     *)
(*                                                                         *)
(* JavaScript numbers that are written into header fields are modelled as  *)
(* little-endian base-256 digit sequences without trailing zeros ("Num"),  *)
(* so that values beyond 2^31 (ByteRate of large inputs) are exact and the *)
(* range checks of Buffer.writeUInt16LE / writeUInt32LE are the real ones. *)
(***************************************************************************)
EXTENDS Integers, Sequences, FiniteSets

VARIABLES
    \* ---- encoder harness (specification SpecWav) ----
    encoder,      \* which copy of the encoder is applied
    pcmBuffer,    \* the raw payload, a sequence of bytes
    sampleRate,   \* the sampleRate argument
    numChannels,  \* the numChannels argument
    wav,          \* the result of the call, or NoResult before it
    \* ---- one request through one handler (specification Spec) ----
    handler,      \* which handler serves the request
    req,          \* the request: method, body, fields
    env,          \* process.env: which credentials are set
    pc,           \* where the handler is suspended
    inflight,     \* the external calls awaited right now
    calls,        \* every outbound request issued, in order
    responses,    \* every response sent on res, in order
    locals        \* the handler's local variables

encVars == <<encoder, pcmBuffer, sampleRate, numChannels, wav>>
reqVars == <<handler, req, env, pc, inflight, calls, responses, locals>>
vars == <<encoder, pcmBuffer, sampleRate, numChannels, wav,
          handler, req, env, pc, inflight, calls, responses, locals>>

---------------------------------------------------------------------------
(* Bounds of the model *)

\* longest payload the encoder harness draws
MaxLen == 4

---------------------------------------------------------------------------
(* JavaScript numbers as little-endian base-256 digits *)

RECURSIVE Num(_)
Num(n) == IF n = 0 THEN <<>> ELSE <<n % 256>> \o Num(n \div 256)

RECURSIVE NumMulCarry(_, _, _)
NumMulCarry(d, k, carry) ==
    IF d = <<>> THEN Num(carry)
    ELSE LET t == d[1] * k + carry
         IN  <<t % 256>> \o NumMulCarry(Tail(d), k, t \div 256)

\* d * k, for a small multiplier k
NumMul(d, k) == IF k = 0 THEN <<>> ELSE NumMulCarry(d, k, 0)

RECURSIVE Strip(_)
Strip(d) == IF d # <<>> /\ d[Len(d)] = 0 THEN Strip(SubSeq(d, 1, Len(d) - 1)) ELSE d

RECURSIVE NumDivRem(_, _, _)
\* quotient digits of d / k, most significant digit first, remainder rem carried in
NumDivRem(d, k, rem) ==
    IF d = <<>> THEN <<>>
    ELSE LET cur == rem * 256 + d[Len(d)]
         IN  NumDivRem(SubSeq(d, 1, Len(d) - 1), k, cur % k) \o <<cur \div k>>

\* d / k for the exact divisions the encoder performs
NumDiv(d, k) == Strip(NumDivRem(d, k, 0))

RECURSIVE NumAddCarry(_, _)
NumAddCarry(d, carry) ==
    IF carry = 0 THEN d
    ELSE IF d = <<>> THEN Num(carry)
    ELSE LET t == d[1] + carry
         IN  <<t % 256>> \o NumAddCarry(Tail(d), t \div 256)

\* d + k
NumAdd(d, k) == NumAddCarry(d, k)

\* the value's digits padded with zeros to width bytes
Pad(d, width) == d \o [i \in 1..(width - Len(d)) |-> 0]

---------------------------------------------------------------------------
(* Buffer: a byte sequence, or a pending exception *)

NoResult == [thrown |-> FALSE, done |-> FALSE, bytes |-> <<>>]

\* Buffer.alloc(size): zero-filled
BufferAlloc(size) == [thrown |-> FALSE, done |-> TRUE, bytes |-> [i \in 1..size |-> 0]]

Put(bytes, src, offset) ==
    [i \in 1..Len(bytes) |->
        IF i > offset /\ i <= offset + Len(src) THEN src[i - offset] ELSE bytes[i]]

\* buffer.write(string, offset): the string's ASCII codes, as many as fit
BufWrite(b, codes, offset) ==
    IF b.thrown THEN b ELSE [b EXCEPT !.bytes = Put(b.bytes, codes, offset)]

\* variant: a write that keeps the low bytes of a value that does not fit
BufWriteUIntLETruncating(b, value, offset, width) ==
    IF b.thrown THEN b
    ELSE [b EXCEPT !.bytes = Put(b.bytes, SubSeq(Pad(value, width), 1, width), offset)]

\* buffer.writeUIntLE of a given width: a value that does not fit raises
\* ERR_OUT_OF_RANGE, as does a field that does not lie inside the buffer
BufWriteUIntLE(b, value, offset, width) ==
    IF b.thrown THEN b
    ELSE IF Len(value) > width \/ offset + width > Len(b.bytes)
         THEN [b EXCEPT !.thrown = TRUE]
         ELSE [b EXCEPT !.bytes = Put(b.bytes, Pad(value, width), offset)]

BufWriteUInt32LE(b, value, offset) == BufWriteUIntLE(b, value, offset, 4)

BufWriteUInt16LE(b, value, offset) == BufWriteUIntLE(b, value, offset, 2)

\* source.copy(target, targetStart)
BufCopy(b, src, targetStart) ==
    IF b.thrown THEN b ELSE [b EXCEPT !.bytes = Put(b.bytes, src, targetStart)]

\* what the caller gets: the buffer, or the exception (no buffer)
Returned(b) == IF b.thrown THEN [thrown |-> TRUE, done |-> TRUE, bytes |-> <<>>] ELSE b

RIFF == <<82, 73, 70, 70>>
WAVE == <<87, 65, 86, 69>>
FMT_ == <<102, 109, 116, 32>>
DATA == <<100, 97, 116, 97>>

---------------------------------------------------------------------------
(* The three copies of the encoder.  The derived header values are written *)
(* with the same text in all three files.                                  *)

\* variant: the rate left in bits per second (the division by 8 forgotten)
ByteRateInBits(rate, channels, bitsPerSample) ==
    NumMul(NumMul(Num(rate), channels), bitsPerSample)

\* (sampleRate * numChannels * bitsPerSample) / 8
ByteRate(rate, channels, bitsPerSample) ==
    NumDiv(NumMul(NumMul(Num(rate), channels), bitsPerSample), 8)

\* (numChannels * bitsPerSample) / 8
BlockAlign(channels, bitsPerSample) == NumDiv(NumMul(Num(channels), bitsPerSample), 8)

\* variant: the whole file size written as ChunkSize
ChunkSizeWholeFile(dataSize) == NumAdd(Num(dataSize), 44)

\* 36 + dataSize
ChunkSize(dataSize) == NumAdd(Num(dataSize), 36)

\* variant: a buffer one byte short
WavSizeShort(headerSize, dataSize) == headerSize + dataSize - 1

\* the size the buffer is allocated with: header + payload
WavSize(headerSize, dataSize) == headerSize + dataSize

\* src/api/pocket-ai.js
pcm16ToWavBuffer(pcm, rate, channels) ==
    LET bitsPerSample == 16
        byteRate   == ByteRate(rate, channels, bitsPerSample)
        blockAlign == BlockAlign(channels, bitsPerSample)
        wavHeaderSize == 44
        dataSize   == Len(pcm)
        b0  == BufferAlloc(WavSize(wavHeaderSize, dataSize))
        b1  == BufWrite(b0, RIFF, 0)
        b2  == BufWriteUInt32LE(b1, ChunkSize(dataSize), 4)
        b3  == BufWrite(b2, WAVE, 8)
        b4  == BufWrite(b3, FMT_, 12)
        b5  == BufWriteUInt32LE(b4, Num(16), 16)
        b6  == BufWriteUInt16LE(b5, Num(1), 20)
        b7  == BufWriteUInt16LE(b6, Num(channels), 22)
        b8  == BufWriteUInt32LE(b7, Num(rate), 24)
        b9  == BufWriteUInt32LE(b8, byteRate, 28)
        b10 == BufWriteUInt16LE(b9, blockAlign, 32)
        b11 == BufWriteUInt16LE(b10, Num(bitsPerSample), 34)
        b12 == BufWrite(b11, DATA, 36)
        b13 == BufWriteUInt32LE(b12, Num(dataSize), 40)
        b14 == BufCopy(b13, pcm, wavHeaderSize)
    IN  Returned(b14)

\* src/api/todo-from-speech.js (a second copy of the same text)
todoPcm16ToWavBuffer(pcm, rate, channels) ==
    LET bitsPerSample == 16
        byteRate   == ByteRate(rate, channels, bitsPerSample)
        blockAlign == BlockAlign(channels, bitsPerSample)
        wavHeaderSize == 44
        dataSize   == Len(pcm)
        b0  == BufferAlloc(WavSize(wavHeaderSize, dataSize))
        b1  == BufWrite(b0, RIFF, 0)
        b2  == BufWriteUInt32LE(b1, ChunkSize(dataSize), 4)
        b3  == BufWrite(b2, WAVE, 8)
        b4  == BufWrite(b3, FMT_, 12)
        b5  == BufWriteUInt32LE(b4, Num(16), 16)
        b6  == BufWriteUInt16LE(b5, Num(1), 20)
        b7  == BufWriteUInt16LE(b6, Num(channels), 22)
        b8  == BufWriteUInt32LE(b7, Num(rate), 24)
        b9  == BufWriteUInt32LE(b8, byteRate, 28)
        b10 == BufWriteUInt16LE(b9, blockAlign, 32)
        b11 == BufWriteUInt16LE(b10, Num(bitsPerSample), 34)
        b12 == BufWrite(b11, DATA, 36)
        b13 == BufWriteUInt32LE(b12, Num(dataSize), 40)
        b14 == BufCopy(b13, pcm, wavHeaderSize)
    IN  Returned(b14)

\* src/unnamed/part_000: one channel, a running offset
pcm16ToWav(pcm, rate) ==
    LET channels == 1
        bitsPerSample == 16
        byteRate   == ByteRate(rate, channels, bitsPerSample)
        blockAlign == BlockAlign(channels, bitsPerSample)
        dataSize   == Len(pcm)
        b0  == BufferAlloc(WavSize(44, dataSize))
        o0  == 0
        b1  == BufWrite(b0, RIFF, o0)
        o1  == o0 + 4
        b2  == BufWriteUInt32LE(b1, ChunkSize(dataSize), o1)
        o2  == o1 + 4
        b3  == BufWrite(b2, WAVE, o2)
        o3  == o2 + 4
        b4  == BufWrite(b3, FMT_, o3)
        o4  == o3 + 4
        b5  == BufWriteUInt32LE(b4, Num(16), o4)
        o5  == o4 + 4
        b6  == BufWriteUInt16LE(b5, Num(1), o5)
        o6  == o5 + 2
        b7  == BufWriteUInt16LE(b6, Num(channels), o6)
        o7  == o6 + 2
        b8  == BufWriteUInt32LE(b7, Num(rate), o7)
        o8  == o7 + 4
        b9  == BufWriteUInt32LE(b8, byteRate, o8)
        o9  == o8 + 4
        b10 == BufWriteUInt16LE(b9, blockAlign, o9)
        o10 == o9 + 2
        b11 == BufWriteUInt16LE(b10, Num(bitsPerSample), o10)
        o11 == o10 + 2
        b12 == BufWrite(b11, DATA, o11)
        o12 == o11 + 4
        b13 == BufWriteUInt32LE(b12, Num(dataSize), o12)
        o13 == o12 + 4
        b14 == BufCopy(b13, pcm, o13)
    IN  Returned(b14)

---------------------------------------------------------------------------
(* JavaScript values of the request and of the replies *)

\* a request field by what the handlers can tell of it: undefined, "",
\* a non-empty string, a non-zero number, an array
FieldKinds == {"undefined", "emptyString", "string", "number", "array"}

Truthy(v) == v \notin {"undefined", "emptyString"}

TypeofString(v) == v \in {"emptyString", "string"}

\* a || b
Or(a, b) == IF Truthy(a) THEN a ELSE b

\* texts are sequences of characters; " " is white space
RECURSIVE TrimStart(_)
TrimStart(s) == IF s # <<>> /\ s[1] = " " THEN TrimStart(Tail(s)) ELSE s

RECURSIVE TrimEnd(_)
TrimEnd(s) == IF s # <<>> /\ s[Len(s)] = " " THEN TrimEnd(SubSeq(s, 1, Len(s) - 1)) ELSE s

\* String.prototype.trim
Trim(s) == TrimEnd(TrimStart(s))

\* a missing property (undefined) of a reply
Undefined == <<"undefined">>

\* x || y on texts, where undefined and "" are falsy
TextOr(x, y) == IF x = Undefined \/ x = <<>> THEN y ELSE x

\* x?.trim(): undefined stays undefined
TrimOpt(x) == IF x = Undefined THEN Undefined ELSE Trim(x)

\* x ?? y on texts
Nullish(x, y) == IF x = Undefined THEN y ELSE x

\* JSON null
Null == <<"null">>

\* x ?? null
OrNull(x) == IF x = Undefined THEN Null ELSE x

---------------------------------------------------------------------------
(* Requests, environment, replies of the external services *)

Handlers == {"pocket-ai", "todo-from-speech", "part_000"}

\* req.body as the handler finds it: missing, a string that is not JSON, the
\* string "null", a string holding a JSON object, an object already parsed
BodyKinds == {"undefined", "badJsonString", "nullJsonString", "jsonString", "object"}

\* bodies that carry the fields of the request
FieldBodies == {"jsonString", "object"}

\* mode: missing, 'utterance', another non-empty string, the empty string
ModeKinds == {"undefined", "utterance", "other", "emptyString"}

Requests(h) ==
    {r \in [method : {"POST", "GET"}, body : BodyKinds, audioBase64 : FieldKinds,
            audio : {"undefined", "string"}, mode : ModeKinds] :
        /\ r.body \notin FieldBodies =>
              r.audioBase64 = "undefined" /\ r.audio = "undefined" /\ r.mode = "undefined"
        \* fields a handler never reads are left out
        /\ h # "todo-from-speech" => r.mode = "undefined"
        /\ h = "part_000" => r.audio = "undefined"}

EnvNames == {"AZURE_SPEECH_KEY", "AZURE_SPEECH_REGION", "AZURE_OPENAI_KEY",
             "AZURE_OPENAI_ENDPOINT", "AZURE_OPENAI_DEPLOYMENT",
             "NOTION_API_KEY", "NOTION_DATABASE_ID"}

\* process.env: TRUE where the variable is set (to a non-empty value)
Envs(h) ==
    {e \in [EnvNames -> BOOLEAN] :
        h # "todo-from-speech" => e["NOTION_API_KEY"] /\ e["NOTION_DATABASE_ID"]}

\* Buffer.from(base64, 'base64'): the payload the text decodes to
DecodedPayloads == {<<>>, <<1, 2>>}

\* how a fetch ends: it rejects, a non-success status, a success status whose
\* body cannot be read as asked, a success status with its body
FailKinds == {"rejected", "nonOk", "badBody"}

NoReply == [kind |-> "pending"]

SttReplies ==
    {[kind |-> k, DisplayText |-> Undefined, Text |-> Undefined] : k \in FailKinds}
    \cup {[kind |-> "ok", DisplayText |-> d, Text |-> t] :
            d \in {Undefined, <<>>, <<" ">>, <<"a", " ">>}, t \in {Undefined, <<"b">>}}

\* choices[0].message.content and choices[0].messages[0].content
ChatReplies ==
    {[kind |-> k, content |-> Undefined, altContent |-> Undefined] : k \in FailKinds}
    \cup {[kind |-> "ok", content |-> c, altContent |-> a] :
            c \in {Undefined, <<" ">>, <<"r", " ">>}, a \in {Undefined, <<"s">>}}

\* what JSON.parse makes of the classifier's (trimmed, unfenced) content
JsonValues ==
    {[type |-> t, is_todo |-> "undefined", title |-> Undefined, when |-> Undefined,
      notes |-> Undefined] : t \in {"unparseable", "null", "scalar"}}
    \cup {[type |-> "object", is_todo |-> i, title |-> ti, when |-> w, notes |-> n] :
            i \in {"undefined", "false", "true", "string"},
            ti \in {Undefined, <<"t">>}, w \in {Null, <<"w">>}, n \in {Null, <<"n">>}}

NoJson == [type |-> "none", is_todo |-> "undefined", title |-> Undefined,
           when |-> Undefined, notes |-> Undefined]

TodoChatReplies ==
    {[kind |-> k, hasContent |-> FALSE, json |-> NoJson] : k \in FailKinds}
    \cup {[kind |-> "ok", hasContent |-> FALSE, json |-> NoJson]}
    \cup {[kind |-> "ok", hasContent |-> TRUE, json |-> j] : j \in JsonValues}

TtsReplies == {[kind |-> k] : k \in FailKinds \cup {"ok"}}

TokenReplies == {[kind |-> k] : k \in FailKinds \cup {"ok"}}

NotionReplies == {[kind |-> k] : k \in {"rejected", "nonOk", "ok"}}

---------------------------------------------------------------------------
(* The steps shared by the handlers' models *)

\* a value returned, or an exception thrown
Ret(v) == [thrown |-> FALSE, value |-> v]
Throw == [thrown |-> TRUE, value |-> Undefined]

ErrorResponse(status) == [status |-> status, kind |-> "error"]

\* the awaited call has ended with reply r
Settled(r) == [calls EXCEPT ![Len(calls)].result = r.kind, ![Len(calls)].reply = r]

\* the services whose reply is still awaited
Pending(cs) == {cs[i].svc : i \in {j \in 1..Len(cs) : cs[j].result = "pending"}}

\* fetch(...): an outbound request to svc is issued and awaited
Fetch(settled, svc, credsSet, nextPc, newLocals) ==
    /\ calls' = Append(settled, [svc |-> svc, creds |-> credsSet,
                                 result |-> "pending", reply |-> NoReply])
    /\ inflight' = Pending(settled) \cup {svc}
    /\ pc' = nextPc
    /\ locals' = newLocals
    /\ UNCHANGED responses

\* variant: the response is sent and the catch block then answers again
RespondTwice(settled, response, newLocals) ==
    /\ calls' = settled
    /\ inflight' = Pending(settled)
    /\ pc' = "done"
    /\ locals' = newLocals
    /\ responses' = Append(Append(responses, response), ErrorResponse(500))

\* res.status(..).json(..) / res.send(..): the handler ends with a response
Respond(settled, response, newLocals) ==
    /\ calls' = settled
    /\ inflight' = Pending(settled)
    /\ pc' = "done"
    /\ locals' = newLocals
    /\ responses' = Append(responses, response)

\* the WAV each handler builds for speech-to-text from the decoded payload:
\* 16 kHz, and one channel where the copy takes a channel count
SttWavBuffers ==
    [h \in Handlers |->
        [pcm \in DecodedPayloads |->
            CASE h = "pocket-ai" -> pcm16ToWavBuffer(pcm, 16000, 1)
              [] h = "todo-from-speech" -> todoPcm16ToWavBuffer(pcm, 16000, 1)
              [] h = "part_000" -> pcm16ToWav(pcm, 16000)]]

NoTodo == [is_todo |-> FALSE, title |-> Null, when |-> Null, notes |-> Null]

\* prompt is the user text handed to the chat service
InitLocals == [wavBuffer |-> <<>>, recognizedText |-> Undefined, prompt |-> Undefined,
               replyText |-> Undefined, todo |-> NoTodo, notionPosted |-> FALSE]

---------------------------------------------------------------------------
(* src/api/pocket-ai.js *)

\* typeof req.body === 'string' ? JSON.parse(req.body || '{}') : (req.body || {})
\* (the same line in todo-from-speech.js)
ParseBody(r) ==
    CASE r.body = "badJsonString" -> Throw
      [] r.body = "nullJsonString" -> Ret([isNull |-> TRUE, audioBase64 |-> "undefined",
                                           audio |-> "undefined", mode |-> "undefined"])
      [] OTHER -> Ret([isNull |-> FALSE, audioBase64 |-> r.audioBase64,
                       audio |-> r.audio, mode |-> r.mode])

\* if (!speechKey || !speechRegion) throw
SpeechCredentialsSet(e) == e["AZURE_SPEECH_KEY"] /\ e["AZURE_SPEECH_REGION"]

\* if (!openaiKey || !openaiEndpoint || !openaiDeployment) throw
OpenAICredentialsSet(e) ==
    e["AZURE_OPENAI_KEY"] /\ e["AZURE_OPENAI_ENDPOINT"] /\ e["AZURE_OPENAI_DEPLOYMENT"]

\* variant: nothing is put in place of an empty recognition result
SttPlaceholderEmpty == <<>>

\* the text put in place of an empty recognition result
SttPlaceholder == <<"e", "r", "r">>

\* variant: the reply's status is not looked at
callAzureSpeechToTextUnchecked(r) ==
    IF r.kind = "rejected" THEN Throw
    ELSE LET recognizedText == TextOr(r.DisplayText, TextOr(r.Text, <<>>))
         IN  IF recognizedText = <<>> THEN Ret(SttPlaceholder) ELSE Ret(recognizedText)

\* callAzureSpeechToText after its fetch: the recognized text, or a throw
\* (a rejected fetch, a non-success status, a body that is not JSON)
callAzureSpeechToText(r) ==
    IF r.kind = "rejected" THEN Throw
    ELSE IF r.kind # "ok" THEN Throw
    ELSE LET recognizedText == TextOr(r.DisplayText, TextOr(r.Text, <<>>))
         IN  IF recognizedText = <<>> THEN Ret(SttPlaceholder) ELSE Ret(recognizedText)

\* callAzureOpenAIChat after its fetch: the reply text, or a throw
callAzureOpenAIChat(r) ==
    IF r.kind = "rejected" THEN Throw
    ELSE IF r.kind # "ok" THEN Throw
    ELSE LET replyText == TextOr(TrimOpt(r.content), TextOr(TrimOpt(r.altContent), <<>>))
         IN  IF replyText = <<>> THEN Throw ELSE Ret(replyText)

\* callAzureSpeechTTS after its fetch: the audio, or a throw
callAzureSpeechTTS(r) ==
    IF r.kind = "rejected" THEN Throw
    ELSE IF r.kind # "ok" THEN Throw
    ELSE Ret(<<"wav">>)

\* the handler up to its first await
PocketStart ==
    /\ handler = "pocket-ai" /\ pc = "start"
    /\ IF req.method # "POST" THEN Respond(calls, ErrorResponse(405), locals)
       ELSE LET body == ParseBody(req) IN
         IF body.thrown \/ body.value.isNull THEN Respond(calls, ErrorResponse(500), locals)
         ELSE LET base64 == Or(body.value.audioBase64, Or(body.value.audio, "emptyString")) IN
           IF ~Truthy(base64) \/ ~TypeofString(base64)
           THEN Respond(calls, ErrorResponse(400), locals)
           ELSE \E pcm \in DecodedPayloads :
                  LET sttWavBuffer == SttWavBuffers["pocket-ai"][pcm]
                      l1 == [locals EXCEPT !.wavBuffer = sttWavBuffer.bytes]
                  IN  IF sttWavBuffer.thrown \/ ~SpeechCredentialsSet(env)
                      THEN Respond(calls, ErrorResponse(500), l1)
                      ELSE Fetch(calls, "stt", SpeechCredentialsSet(env), "await_stt", l1)
    /\ UNCHANGED <<handler, req, env>>
    /\ UNCHANGED encVars

\* speech-to-text replies; the handler goes on to the chat call
PocketSttReturn ==
    /\ handler = "pocket-ai" /\ pc = "await_stt"
    /\ \E r \in SttReplies :
         LET recognizedText == callAzureSpeechToText(r)
             l1 == [locals EXCEPT !.recognizedText = recognizedText.value]
         IN  IF recognizedText.thrown THEN Respond(Settled(r), ErrorResponse(500), locals)
             ELSE IF ~OpenAICredentialsSet(env)
                  THEN Respond(Settled(r), ErrorResponse(500), l1)
                  ELSE Fetch(Settled(r), "chat", OpenAICredentialsSet(env), "await_chat",
                             [l1 EXCEPT !.prompt = recognizedText.value])
    /\ UNCHANGED <<handler, req, env>>
    /\ UNCHANGED encVars

\* the chat service replies; the handler goes on to text-to-speech
PocketChatReturn ==
    /\ handler = "pocket-ai" /\ pc = "await_chat"
    /\ \E r \in ChatReplies :
         LET replyText == callAzureOpenAIChat(r)
             l1 == [locals EXCEPT !.replyText = replyText.value]
         IN  IF replyText.thrown THEN Respond(Settled(r), ErrorResponse(500), locals)
             ELSE IF ~SpeechCredentialsSet(env)
                  THEN Respond(Settled(r), ErrorResponse(500), l1)
                  ELSE Fetch(Settled(r), "tts", SpeechCredentialsSet(env), "await_tts", l1)
    /\ UNCHANGED <<handler, req, env>>
    /\ UNCHANGED encVars

\* text-to-speech replies; the handler sends the audio
PocketTtsReturn ==
    /\ handler = "pocket-ai" /\ pc = "await_tts"
    /\ \E r \in TtsReplies :
         LET ttsWavBuffer == callAzureSpeechTTS(r)
         IN  IF ttsWavBuffer.thrown
             THEN Respond(Settled(r), ErrorResponse(500), locals)
             ELSE Respond(Settled(r),
                          [status |-> 200, kind |-> "audio", body |-> ttsWavBuffer.value,
                           recognizedText |-> locals.recognizedText,
                           replyText |-> locals.replyText], locals)
    /\ UNCHANGED <<handler, req, env>>
    /\ UNCHANGED encVars

---------------------------------------------------------------------------
(* src/api/todo-from-speech.js *)

\* callAzureSpeechToText after its fetch: the trimmed text, or a throw
todoCallAzureSpeechToText(r) ==
    IF r.kind = "rejected" THEN Throw
    ELSE IF r.kind # "ok" THEN Throw
    ELSE LET recognizedText == TextOr(r.DisplayText, TextOr(r.Text, <<>>))
         IN  Ret(Trim(recognizedText))

\* variant: anything but an explicit false counts as a task
ToBooleanUnlessFalse(v) == v # "false"

\* !!parsed.is_todo
ToBoolean(v) == v \in {"true", "string"}

\* callAzureOpenAITodoAnalyzer after its fetch: the todo record, or a throw.
\* JSON.parse failing is caught and falls back to "no TODO"; reading
\* parsed.is_todo of null is outside that try and throws a TypeError.
callAzureOpenAITodoAnalyzer(r) ==
    IF r.kind = "rejected" THEN Throw
    ELSE IF r.kind # "ok" THEN Throw
    ELSE IF ~r.hasContent THEN Throw
    ELSE LET parsed == r.json
         IN  CASE parsed.type = "unparseable" -> Ret(NoTodo)
               [] parsed.type = "null" -> Throw
               [] OTHER -> Ret([is_todo |-> ToBoolean(parsed.is_todo),
                                title |-> OrNull(parsed.title),
                                when |-> OrNull(parsed.when),
                                notes |-> OrNull(parsed.notes)])

\* if (!notionKey || !databaseId) return false
NotionCredentialsSet(e) == e["NOTION_API_KEY"] /\ e["NOTION_DATABASE_ID"]

\* variant: a failed write raises instead of returning false
postTodoToNotionRaising(r) == IF r.kind = "ok" THEN Ret(TRUE) ELSE Throw

\* postTodoToNotion after its fetch: whether the page was stored
postTodoToNotion(r) ==
    IF r.kind = "rejected" THEN Ret(FALSE)
    ELSE IF r.kind # "ok" THEN Ret(FALSE)
    ELSE Ret(TRUE)

\* the JSON summary the handler ends with
TodoSummary(l) ==
    [status |-> 200, kind |-> "json", recognizedText |-> l.recognizedText,
     todoTitle |-> l.todo.title, todoWhen |-> l.todo.when, todoNotes |-> l.todo.notes,
     notionPosted |-> l.notionPosted]

\* the handler up to its first await
TodoStart ==
    /\ handler = "todo-from-speech" /\ pc = "start"
    /\ IF req.method # "POST" THEN Respond(calls, ErrorResponse(405), locals)
       ELSE LET body == ParseBody(req) IN
         IF body.thrown \/ body.value.isNull THEN Respond(calls, ErrorResponse(500), locals)
         ELSE LET mode == Or(body.value.mode, "utterance")
                  base64 == Or(body.value.audioBase64, Or(body.value.audio, "emptyString"))
              IN
           IF mode # "utterance" THEN Respond(calls, ErrorResponse(400), locals)
           ELSE IF ~Truthy(base64) \/ ~TypeofString(base64)
           THEN Respond(calls, ErrorResponse(400), locals)
           ELSE \E pcm \in DecodedPayloads :
                  LET wavBuffer == SttWavBuffers["todo-from-speech"][pcm]
                      l1 == [locals EXCEPT !.wavBuffer = wavBuffer.bytes]
                  IN  IF wavBuffer.thrown \/ ~SpeechCredentialsSet(env)
                      THEN Respond(calls, ErrorResponse(500), l1)
                      ELSE Fetch(calls, "stt", SpeechCredentialsSet(env), "await_stt", l1)
    /\ UNCHANGED <<handler, req, env>>
    /\ UNCHANGED encVars

\* speech-to-text replies; a non-empty text goes to the classifier
TodoSttReturn ==
    /\ handler = "todo-from-speech" /\ pc = "await_stt"
    /\ \E r \in SttReplies :
         LET recognizedText == todoCallAzureSpeechToText(r)
             l1 == [locals EXCEPT !.recognizedText = recognizedText.value]
         IN  IF recognizedText.thrown THEN Respond(Settled(r), ErrorResponse(500), locals)
             ELSE IF recognizedText.value = <<>> THEN Respond(Settled(r), TodoSummary(l1), l1)
             ELSE IF ~OpenAICredentialsSet(env)
                  THEN Respond(Settled(r), ErrorResponse(500), l1)
                  ELSE Fetch(Settled(r), "chat", OpenAICredentialsSet(env), "await_chat",
                             [l1 EXCEPT !.prompt = recognizedText.value])
    /\ UNCHANGED <<handler, req, env>>
    /\ UNCHANGED encVars

\* the classifier replies; a TODO goes to Notion when its credentials are set
TodoChatReturn ==
    /\ handler = "todo-from-speech" /\ pc = "await_chat"
    /\ \E r \in TodoChatReplies :
         LET todo == callAzureOpenAITodoAnalyzer(r)
             l1 == [locals EXCEPT !.todo = todo.value]
         IN  IF todo.thrown THEN Respond(Settled(r), ErrorResponse(500), locals)
             ELSE IF ~todo.value.is_todo THEN Respond(Settled(r), TodoSummary(l1), l1)
             ELSE IF ~NotionCredentialsSet(env) THEN Respond(Settled(r), TodoSummary(l1), l1)
             ELSE Fetch(Settled(r), "notion", NotionCredentialsSet(env), "await_notion", l1)
    /\ UNCHANGED <<handler, req, env>>
    /\ UNCHANGED encVars

\* Notion replies; the handler sends the summary whatever the outcome
TodoNotionReturn ==
    /\ handler = "todo-from-speech" /\ pc = "await_notion"
    /\ \E r \in NotionReplies :
         LET notionPosted == postTodoToNotion(r)
         IN  IF notionPosted.thrown THEN Respond(Settled(r), ErrorResponse(500), locals)
             ELSE LET l1 == [locals EXCEPT !.notionPosted = notionPosted.value]
                  IN  Respond(Settled(r), TodoSummary(l1), l1)
    /\ UNCHANGED <<handler, req, env>>
    /\ UNCHANGED encVars

---------------------------------------------------------------------------
(* src/unnamed/part_000 *)

\* const { audioBase64 } = req.body || {}: a string body has no such property
UnnamedAudioBase64(r) == IF r.body = "object" THEN r.audioBase64 ELSE "undefined"

\* Buffer.from(audioBase64, 'base64') takes a string or an array and raises a
\* TypeError for a number
BufferFromAccepts(v) == v \in {"string", "array"}

\* the text put in place of an empty recognition result
NotHeardPlaceholder == <<"n", "h">>

\* getSpeechToken after its fetch: the token, or a throw
getSpeechToken(r) ==
    IF r.kind = "rejected" THEN Throw
    ELSE IF r.kind # "ok" THEN Throw
    ELSE Ret(<<"token">>)

\* variant: the reply's status is not looked at
speechToTextUnchecked(r) ==
    IF r.kind = "rejected" THEN Throw
    ELSE Ret(TextOr(r.DisplayText, <<>>))

\* speechToText after its fetch: json.DisplayText || '', or a throw
speechToText(r) ==
    IF r.kind = "rejected" THEN Throw
    ELSE IF r.kind # "ok" THEN Throw
    ELSE Ret(TextOr(r.DisplayText, <<>>))

\* `${endpoint}/openai/...` is a URL fetch can parse only when endpoint is set
ChatUrlValid(e) == e["AZURE_OPENAI_ENDPOINT"]

\* callChatGPT after its fetch: content?.trim() ?? '', or a throw
callChatGPT(r) ==
    IF r.kind = "rejected" THEN Throw
    ELSE IF r.kind # "ok" THEN Throw
    ELSE Ret(Nullish(TrimOpt(r.content), <<>>))

\* textToSpeech after its fetch: the audio, or a throw
textToSpeech(r) ==
    IF r.kind = "rejected" THEN Throw
    ELSE IF r.kind # "ok" THEN Throw
    ELSE Ret(<<"mp3">>)

\* the handler up to its first await: the token request of speechToText
UnnamedStart ==
    /\ handler = "part_000" /\ pc = "start"
    /\ IF req.method # "POST" THEN Respond(calls, ErrorResponse(405), locals)
       ELSE LET audioBase64 == UnnamedAudioBase64(req) IN
         IF ~Truthy(audioBase64) THEN Respond(calls, ErrorResponse(400), locals)
         ELSE IF ~BufferFromAccepts(audioBase64) THEN Respond(calls, ErrorResponse(500), locals)
         ELSE \E pcm \in DecodedPayloads :
                LET wavBuffer == SttWavBuffers["part_000"][pcm]
                    l1 == [locals EXCEPT !.wavBuffer = wavBuffer.bytes]
                IN  IF wavBuffer.thrown THEN Respond(calls, ErrorResponse(500), l1)
                    ELSE Fetch(calls, "token", SpeechCredentialsSet(env), "await_stt_token", l1)
    /\ UNCHANGED <<handler, req, env>>
    /\ UNCHANGED encVars

\* the token for speech-to-text arrives; the recognition request follows
UnnamedSttTokenReturn ==
    /\ handler = "part_000" /\ pc = "await_stt_token"
    /\ \E r \in TokenReplies :
         LET token == getSpeechToken(r)
         IN  IF token.thrown THEN Respond(Settled(r), ErrorResponse(500), locals)
             ELSE Fetch(Settled(r), "stt", SpeechCredentialsSet(env), "await_stt", locals)
    /\ UNCHANGED <<handler, req, env>>
    /\ UNCHANGED encVars

\* speech-to-text replies; the handler goes on to the chat call
UnnamedSttReturn ==
    /\ handler = "part_000" /\ pc = "await_stt"
    /\ \E r \in SttReplies :
         LET text == speechToText(r)
             l1 == [locals EXCEPT !.recognizedText = text.value,
                                  !.prompt = TextOr(text.value, NotHeardPlaceholder)]
         IN  IF text.thrown THEN Respond(Settled(r), ErrorResponse(500), locals)
             ELSE IF ~ChatUrlValid(env) THEN Respond(Settled(r), ErrorResponse(500), l1)
             ELSE Fetch(Settled(r), "chat", OpenAICredentialsSet(env), "await_chat", l1)
    /\ UNCHANGED <<handler, req, env>>
    /\ UNCHANGED encVars

\* the chat service replies; the token request of textToSpeech follows
UnnamedChatReturn ==
    /\ handler = "part_000" /\ pc = "await_chat"
    /\ \E r \in ChatReplies :
         LET reply == callChatGPT(r)
             l1 == [locals EXCEPT !.replyText = reply.value]
         IN  IF reply.thrown THEN Respond(Settled(r), ErrorResponse(500), locals)
             ELSE Fetch(Settled(r), "token", SpeechCredentialsSet(env), "await_tts_token", l1)
    /\ UNCHANGED <<handler, req, env>>
    /\ UNCHANGED encVars

\* the token for text-to-speech arrives; the synthesis request follows
UnnamedTtsTokenReturn ==
    /\ handler = "part_000" /\ pc = "await_tts_token"
    /\ \E r \in TokenReplies :
         LET token == getSpeechToken(r)
         IN  IF token.thrown THEN Respond(Settled(r), ErrorResponse(500), locals)
             ELSE Fetch(Settled(r), "tts", SpeechCredentialsSet(env), "await_tts", locals)
    /\ UNCHANGED <<handler, req, env>>
    /\ UNCHANGED encVars

\* text-to-speech replies; the handler sends the audio
UnnamedTtsReturn ==
    /\ handler = "part_000" /\ pc = "await_tts"
    /\ \E r \in TtsReplies :
         LET audioBuffer == textToSpeech(r)
         IN  IF audioBuffer.thrown THEN Respond(Settled(r), ErrorResponse(500), locals)
             ELSE Respond(Settled(r),
                          [status |-> 200, kind |-> "audio", body |-> audioBuffer.value,
                           recognizedText |-> locals.recognizedText,
                           replyText |-> locals.replyText], locals)
    /\ UNCHANGED <<handler, req, env>>
    /\ UNCHANGED encVars

---------------------------------------------------------------------------
(* One request through one handler *)

IdleEncoder ==
    /\ encoder = "none"
    /\ pcmBuffer = <<>>
    /\ sampleRate = 16000
    /\ numChannels = 1
    /\ wav = NoResult

Init ==
    /\ handler \in Handlers
    /\ req \in Requests(handler)
    /\ env \in Envs(handler)
    /\ pc = "start"
    /\ inflight = {}
    /\ calls = <<>>
    /\ responses = <<>>
    /\ locals = InitLocals
    /\ IdleEncoder

Next ==
    \/ PocketStart
    \/ PocketSttReturn
    \/ PocketChatReturn
    \/ PocketTtsReturn
    \/ TodoStart
    \/ TodoSttReturn
    \/ TodoChatReturn
    \/ TodoNotionReturn
    \/ UnnamedStart
    \/ UnnamedSttTokenReturn
    \/ UnnamedSttReturn
    \/ UnnamedChatReturn
    \/ UnnamedTtsTokenReturn
    \/ UnnamedTtsReturn

Spec == Init /\ [][Next]_vars

---------------------------------------------------------------------------
(* Properties of the handlers, checked under Spec *)

Done == pc = "done"

\* the response the request ended with
Response == responses[Len(responses)]

CallsTo(svc) == {i \in 1..Len(calls) : calls[i].svc = svc}

\* the request lacks what the handlers ask for: a method other than POST, a
\* body that is not JSON, no audio field that is a non-empty string, a mode
\* naming something other than 'utterance' (TODO handler)
MalformedRequest ==
    \/ req.method # "POST"
    \/ req.body = "badJsonString"
    \/ req.audioBase64 # "string" /\ req.audio # "string"
    \/ handler = "todo-from-speech" /\ req.mode = "other"

\* C5: a request with malformed or missing input is rejected with an error
\* response and no outbound call to any external service is made for it.
C5_MalformedRejectedBeforeAnyCall ==
    MalformedRequest =>
        /\ calls = <<>>
        /\ Done => Len(responses) = 1 /\ Response.kind = "error"

RequiredServices == {"stt", "chat", "tts", "token"}

\* C6: when a required external call returns a non-success status the
\* request fails: the response is a 500, no success payload is sent and no
\* later service of the chain is called.
C6_NonSuccessStatusFailsRequest ==
    \A i \in 1..Len(calls) :
        calls[i].svc \in RequiredServices /\ calls[i].result = "nonOk" =>
            /\ i = Len(calls)
            /\ Done
            /\ responses = <<ErrorResponse(500)>>

C6_Witness ==
    /\ handler = "part_000"
    /\ Done
    /\ Len(calls) = 5
    /\ calls[5].svc = "tts"
    /\ calls[5].result = "nonOk"
    /\ Response.status = 500

\* C7: when the credentials of a required dependency are absent the request
\* ends in a server error and no outbound request is ever sent to that
\* dependency with the credentials missing.
C7_NothingSentWithoutCredentials ==
    /\ \A i \in 1..Len(calls) : calls[i].creds
    /\ Done /\ ~SpeechCredentialsSet(env) /\ Response.status \notin {400, 405} =>
          Response.status = 500

\* the classifier's reply was a success with content that is not the
\* expected JSON object: not JSON at all, or JSON null, or a JSON scalar
ChatReplyNotParsed ==
    /\ handler = "todo-from-speech"
    /\ Len(calls) >= 2
    /\ calls[2].svc = "chat"
    /\ calls[2].result = "ok"
    /\ calls[2].reply.hasContent
    /\ calls[2].reply.json.type \in {"unparseable", "null", "scalar"}

\* C8: a classifier reply that fails to parse as the expected shape is
\* treated as "not a task": the response is 200 with todoTitle, todoWhen and
\* todoNotes null and notionPosted false, and Notion is not called.
C8_UnparsedReplyIsNotATask ==
    ChatReplyNotParsed =>
        /\ Done
        /\ Len(calls) = 2
        /\ Len(responses) = 1
        /\ Response.status = 200
        /\ Response.kind = "json"
        /\ Response.todoTitle = Null
        /\ Response.todoWhen = Null
        /\ Response.todoNotes = Null
        /\ Response.notionPosted = FALSE

\* the classifier called the utterance a task (its reply is calls[2])
ClassifiedAsTodo ==
    /\ Len(calls) >= 2
    /\ calls[2].svc = "chat"
    /\ calls[2].result = "ok"
    /\ calls[2].reply.hasContent
    /\ calls[2].reply.json.type = "object"
    /\ calls[2].reply.json.is_todo \in {"true", "string"}

\* the summary carries the recognized text and the fields of the reply
SummaryOfTodo(r) ==
    /\ r.status = 200
    /\ r.kind = "json"
    /\ r.recognizedText = locals.recognizedText
    /\ r.recognizedText # <<>>
    /\ r.todoTitle = OrNull(calls[2].reply.json.title)
    /\ r.todoWhen = calls[2].reply.json.when
    /\ r.todoNotes = calls[2].reply.json.notes

\* C9: a failed Notion write (credentials absent, non-success status, the
\* request throwing) never fails the request: the response is still 200 with
\* the recognized text and the todo fields and notionPosted = false; and
\* notionPosted is true only if a Notion write was issued and succeeded.
C9_NotionFailureIsNotFatal ==
    handler = "todo-from-speech" /\ Done =>
        /\ Len(responses) = 1
        /\ (\E i \in CallsTo("notion") : calls[i].result \in {"rejected", "nonOk"}) =>
              SummaryOfTodo(Response) /\ Response.notionPosted = FALSE
        /\ ClassifiedAsTodo /\ ~NotionCredentialsSet(env) =>
              /\ CallsTo("notion") = {}
              /\ SummaryOfTodo(Response) /\ Response.notionPosted = FALSE
        /\ Response.status = 200 /\ Response.notionPosted =>
              \E i \in CallsTo("notion") : calls[i].result = "ok"

C9_Witness ==
    /\ handler = "todo-from-speech"
    /\ Done
    /\ Len(calls) = 3
    /\ calls[3].svc = "notion"
    /\ calls[3].result = "rejected"
    /\ Response.status = 200
    /\ Response.notionPosted = FALSE

\* the chain each handler is said to follow
Chain(h) ==
    IF h = "todo-from-speech" THEN <<"stt", "chat", "notion">> ELSE <<"stt", "chat", "tts">>

NotToken(c) == c.svc # "token"

\* the services called so far, the token requests of part_000 left out
ServicesCalled == [i \in 1..Len(SelectSeq(calls, NotToken)) |-> SelectSeq(calls, NotToken)[i].svc]

\* C10: within one request the external calls form a sequential chain in a
\* fixed order; a call is issued only after the previous call has returned
\* successfully, and never are two calls of the request in flight at once.
C10_SequentialChain ==
    /\ Len(ServicesCalled) <= 3
    /\ ServicesCalled = SubSeq(Chain(handler), 1, Len(ServicesCalled))
    /\ \A i \in 2..Len(calls) : calls[i - 1].result = "ok"
    /\ Cardinality(inflight) <= 1
    /\ Cardinality({i \in 1..Len(calls) : calls[i].result = "pending"}) <= 1
    /\ inflight # {} => ~Done /\ calls[Len(calls)].result = "pending"

C10_Witness ==
    /\ handler = "pocket-ai"
    /\ pc = "await_tts"
    /\ inflight = {"tts"}
    /\ Len(calls) = 3
    /\ calls[1].result = "ok"
    /\ calls[2].result = "ok"

\* the text the TODO handler recognized, read from the speech reply
RecognizedByTodo ==
    IF Len(calls) >= 1 /\ calls[1].svc = "stt" /\ calls[1].result = "ok"
    THEN Trim(TextOr(calls[1].reply.DisplayText, TextOr(calls[1].reply.Text, <<>>)))
    ELSE <<>>

\* the classifier replied with a JSON object (its reply is calls[2])
ClassifierReplied ==
    /\ Len(calls) >= 2
    /\ calls[2].svc = "chat"
    /\ calls[2].result = "ok"
    /\ calls[2].reply.hasContent
    /\ calls[2].reply.json.type = "object"

\* C11 as stated: a Notion request is issued only if the classifier returned
\* is_todo = true on a non-empty recognized text, and at most once.
C11_NotionOnlyIfIsTodoTrue ==
    /\ Cardinality(CallsTo("notion")) <= 1
    /\ CallsTo("notion") # {} =>
          /\ handler = "todo-from-speech"
          /\ RecognizedByTodo # <<>>
          /\ ClassifierReplied
          /\ calls[2].reply.json.is_todo = "true"

\* C11 as amended: a Notion request is issued only if the classifier's reply
\* carried a truthy is_todo (true, or a value !! turns into true) on a
\* non-empty recognized text; never when is_todo is false or missing or no
\* classification was made; and at most once per request.
C11_NotionOnlyIfIsTodoTruthy ==
    /\ Cardinality(CallsTo("notion")) <= 1
    /\ CallsTo("notion") # {} =>
          /\ handler = "todo-from-speech"
          /\ RecognizedByTodo # <<>>
          /\ ClassifierReplied
          /\ calls[2].reply.json.is_todo \in {"true", "string"}
          /\ CallsTo("notion") = {3}

C11_Witness ==
    /\ handler = "todo-from-speech"
    /\ pc = "await_notion"
    /\ CallsTo("notion") = {3}
    /\ calls[2].reply.json.is_todo = "true"
    /\ RecognizedByTodo = <<"a">>

\* where the speech-to-text call stands among the handler's calls
SttIndex == IF handler = "part_000" THEN 2 ELSE 1

\* speech-to-text succeeded, and the text the handler takes from its reply
\* (DisplayText || Text || '', trimmed by the TODO handler; DisplayText || ''
\* in part_000) is empty
RecognizedEmpty ==
    /\ Len(calls) >= SttIndex
    /\ calls[SttIndex].svc = "stt"
    /\ calls[SttIndex].result = "ok"
    /\ LET r == calls[SttIndex].reply IN
         CASE handler = "pocket-ai" -> TextOr(r.DisplayText, TextOr(r.Text, <<>>)) = <<>>
           [] handler = "todo-from-speech" ->
                 Trim(TextOr(r.DisplayText, TextOr(r.Text, <<>>))) = <<>>
           [] handler = "part_000" -> TextOr(r.DisplayText, <<>>) = <<>>

\* C13: an empty recognition result is not an error, and the handlers diverge.
\* The speech-to-reply handlers never call the chat service with an empty
\* prompt: on an empty result the prompt is the placeholder, the request fails
\* at that point only for want of the chat configuration, and a chat reply is
\* followed by the text-to-speech request.  The TODO handler ends at once
\* with no chat and no Notion call and a 200 summary: empty recognizedText,
\* null todo fields, notionPosted false.
C13_EmptyRecognition ==
    /\ (handler \in {"pocket-ai", "part_000"} /\ CallsTo("chat") # {}) =>
          locals.prompt \notin {<<>>, Undefined}
    /\ (RecognizedEmpty /\ handler = "pocket-ai") =>
          /\ Len(calls) = 1 =>
                Done /\ Response = ErrorResponse(500) /\ ~OpenAICredentialsSet(env)
          /\ Len(calls) >= 2 => calls[2].svc = "chat" /\ locals.prompt = SttPlaceholder
          /\ (/\ Len(calls) >= 2
              /\ calls[2].result = "ok"
              /\ ~callAzureOpenAIChat(calls[2].reply).thrown) =>
                Len(calls) = 3 /\ calls[3].svc = "tts"
    /\ (RecognizedEmpty /\ handler = "part_000") =>
          /\ Len(calls) = 2 => Done /\ Response = ErrorResponse(500) /\ ~ChatUrlValid(env)
          /\ Len(calls) >= 3 => calls[3].svc = "chat" /\ locals.prompt = NotHeardPlaceholder
          /\ (Len(calls) >= 3 /\ calls[3].result = "ok") =>
                Len(calls) >= 4 /\ calls[4].svc = "token"
    /\ (RecognizedEmpty /\ handler = "todo-from-speech") =>
          /\ Done
          /\ Len(calls) = 1
          /\ Response = [status |-> 200, kind |-> "json", recognizedText |-> <<>>,
                         todoTitle |-> Null, todoWhen |-> Null, todoNotes |-> Null,
                         notionPosted |-> FALSE]

\* the speech-to-reply chain carried through on the placeholder
C13_Witness ==
    /\ handler = "pocket-ai"
    /\ RecognizedEmpty
    /\ locals.prompt = SttPlaceholder
    /\ Len(calls) = 3
    /\ calls[3].result = "ok"
    /\ Done
    /\ Response.status = 200

---------------------------------------------------------------------------
(* The encoder harness: one call of one copy of the encoder *)

Encoders == {"pocket-ai", "todo-from-speech", "part_000"}

\* payload bytes, sample rates and channel counts the harness draws; the
\* large ones make BlockAlign, NumChannels and ByteRate pass their widths
PayloadBytes == {1, 2, 3, 4}
SampleRates == {1, 16000, 44100, 70000, 2147483647}
ChannelCounts == {1, 2, 32767, 32768, 65535, 65536}

RECURSIVE SeqsUpTo(_, _)
SeqsUpTo(S, n) ==
    IF n = 0 THEN {<<>>}
    ELSE LET shorter == SeqsUpTo(S, n - 1)
         IN  shorter \cup {Append(q, x) : q \in {r \in shorter : Len(r) = n - 1}, x \in S}

Payloads == SeqsUpTo(PayloadBytes, MaxLen)

\* the request variables while only the encoder is exercised
IdleRequest ==
    /\ handler = "none"
    /\ req = [method |-> "none"]
    /\ env = [none |-> TRUE]
    /\ pc = "idle"
    /\ inflight = {}
    /\ calls = <<>>
    /\ responses = <<>>
    /\ locals = [none |-> TRUE]

InitWav ==
    /\ encoder \in Encoders
    /\ pcmBuffer \in Payloads
    /\ sampleRate \in SampleRates
    /\ numChannels \in (IF encoder = "part_000" THEN {1} ELSE ChannelCounts)
    /\ wav = NoResult
    /\ IdleRequest

\* the call: the copy named by encoder is applied to the arguments
Encode ==
    /\ ~wav.done
    /\ wav' = CASE encoder = "pocket-ai" -> pcm16ToWavBuffer(pcmBuffer, sampleRate, numChannels)
                [] encoder = "todo-from-speech" -> todoPcm16ToWavBuffer(pcmBuffer, sampleRate, numChannels)
                [] encoder = "part_000" -> pcm16ToWav(pcmBuffer, sampleRate)
    /\ UNCHANGED <<encoder, pcmBuffer, sampleRate, numChannels>>
    /\ UNCHANGED reqVars

NextWav == Encode

SpecWav == InitWav /\ [][NextWav]_vars

---------------------------------------------------------------------------
(* Properties of the encoder, checked under SpecWav *)

\* the bytes of a field
ReadBytes(bytes, offset, width) == SubSeq(bytes, offset + 1, offset + width)

\* a little-endian field decoded to a number (digits without leading zeros)
ReadUIntLE(bytes, offset, width) == Strip(ReadBytes(bytes, offset, width))

RECURSIVE ToNat(_)
\* the integer a short digit sequence denotes
ToNat(d) == IF d = <<>> THEN 0 ELSE d[1] + 256 * ToNat(Tail(d))

EncoderReturned == wav.done /\ ~wav.thrown

HandlerArguments == sampleRate = 16000 /\ numChannels = 1

\* C1: the output is a 44-byte header followed by the payload unchanged:
\* its length is L + 44 and bytes 44..44+L-1 are the payload, in every copy
\* of the encoder; with the handlers' arguments the encoder does return.
C1_HeaderThenPayload ==
    /\ wav.done /\ HandlerArguments => ~wav.thrown
    /\ EncoderReturned =>
          /\ Len(wav.bytes) = Len(pcmBuffer) + 44
          /\ ReadBytes(wav.bytes, 44, Len(pcmBuffer)) = pcmBuffer

C1_Witness ==
    /\ EncoderReturned
    /\ encoder = "part_000"
    /\ pcmBuffer = <<1, 2, 3, 4>>
    /\ Len(wav.bytes) = 48

\* C2: the field at offset 40 decodes to L and the field at offset 4 to
\* 36 + L, so ChunkSize = 36 + Subchunk2Size.
C2_SizeFields ==
    EncoderReturned =>
        /\ ToNat(ReadUIntLE(wav.bytes, 40, 4)) = Len(pcmBuffer)
        /\ ToNat(ReadUIntLE(wav.bytes, 4, 4)) = 36 + Len(pcmBuffer)
        /\ ToNat(ReadUIntLE(wav.bytes, 4, 4)) = 36 + ToNat(ReadUIntLE(wav.bytes, 40, 4))

C2_Witness ==
    /\ EncoderReturned
    /\ Len(pcmBuffer) = 4
    /\ ToNat(ReadUIntLE(wav.bytes, 4, 4)) = 40
    /\ ToNat(ReadUIntLE(wav.bytes, 40, 4)) = 4

FieldsFit ==
    /\ Len(Num(numChannels)) <= 2
    /\ Len(NumMul(Num(numChannels), 2)) <= 2
    /\ Len(Num(sampleRate)) <= 4
    /\ Len(NumMul(NumMul(Num(sampleRate), numChannels), 2)) <= 4
    /\ Len(Num(36 + Len(pcmBuffer))) <= 4

\* C4 as stated: the encoder never raises, whatever the positive sample
\* rate and channel count, even when a derived value exceeds its field.
C4_NeverRaises == wav.done => ~wav.thrown

\* C4 as amended: the encoder returns a buffer exactly when every header
\* value fits its 16-bit or 32-bit field, and raises otherwise.
C4_RaisesIffFieldOverflows == wav.done => (wav.thrown <=> ~FieldsFit)

C4_Witness ==
    /\ wav.done
    /\ wav.thrown
    /\ sampleRate = 70000
    /\ numChannels = 32767


---------------------------------------------------------------------------
(* One request from its arrival to its response, every awaited call settling *)

\* no request has arrived
InitFair == IdleRequest /\ IdleEncoder

\* the runtime hands a request to one of the handlers
Arrive ==
    /\ pc = "idle"
    /\ handler' \in Handlers
    /\ req' \in Requests(handler')
    /\ env' \in Envs(handler')
    /\ pc' = "start"
    /\ locals' = InitLocals
    /\ UNCHANGED <<inflight, calls, responses>>
    /\ UNCHANGED encVars

NextFair ==
    \/ Arrive
    \/ PocketStart
    \/ PocketSttReturn
    \/ PocketChatReturn
    \/ PocketTtsReturn
    \/ TodoStart
    \/ TodoSttReturn
    \/ TodoChatReturn
    \/ TodoNotionReturn
    \/ UnnamedStart
    \/ UnnamedSttTokenReturn
    \/ UnnamedSttReturn
    \/ UnnamedChatReturn
    \/ UnnamedTtsTokenReturn
    \/ UnnamedTtsReturn

\* the event loop runs the handler once the request has arrived, and each
\* continuation once the promise it awaits has settled
FairSpec == InitFair /\ [][NextFair]_vars /\ WF_vars(NextFair)

\* the awaited call ends at this step
AwaitedCallSettles ==
    /\ calls # <<>>
    /\ calls[Len(calls)].result = "pending"
    /\ calls'[Len(calls)].result # "pending"

\* C12: every request gets exactly one response. No state holds two
\* responses; the handler has ended exactly when it has responded; a response
\* is sent only by the handler's first step or by the step at which the
\* awaited call returns or fails, so while a call is outstanding nothing has
\* been sent (no timeout); and when every awaited call does return or fail,
\* the request ends with its one response and nothing left in flight.
C12_ExactlyOneResponse ==
    /\ [](Len(responses) <= 1)
    /\ [](Done <=> Len(responses) = 1)
    /\ [](inflight # {} => responses = <<>>)
    /\ [][responses' # responses => pc = "start" \/ AwaitedCallSettles]_vars
    /\ <>[](Done /\ Len(responses) = 1 /\ inflight = {})

\* a request answered after its last awaited call failed
C12_Witness ==
    /\ Done
    /\ Len(responses) = 1
    /\ Response = ErrorResponse(500)
    /\ Len(calls) = 3
    /\ calls[3].result = "rejected"
    /\ inflight = {}

=============================================================================
